---- MODULE Spec2Model ----
(***************************************************************************)
(* A model of the Shellfish prof and tree modes: cmd/prof.go               *)
(* (src/unnamed/part_000), cmd/tree.go and the driver in shellfish.go.     *)
(*                                                                         *)
(* Go slices are 0-indexed; sequences here are 1-indexed.  Where the code  *)
(* indexes with a 0-based number the model goes through At and InRange,    *)
(* which take the 0-based index of the code.                               *)
(*                                                                         *)
(* Floating point values are modelled exactly: a coordinate, radius or     *)
(* mass is an integer and a configuration multiplier is a rational         *)
(* [n |-> numerator, d |-> denominator] with d > 0.  Rounding is modelled  *)
(* where the order of the additions is in question (SpecBlocks): there a   *)
(* bin is a float64 and line 233 of cmd/prof.go adds as IEEE 754 does.     *)
(***************************************************************************)
EXTENDS Integers, Sequences, FiniteSets, TLC

(***************************************************************************)
(* Bounds of the model.                                                    *)
(***************************************************************************)
MaxParticles == 3
MaxHalos == 3
MaxSeeds == 2

(***************************************************************************)
(* Generic helpers.                                                        *)
(***************************************************************************)
Rat(n, d) == [n |-> n, d |-> d]

Sq(a) == a * a

RECURSIVE Pow(_, _)
Pow(a, k) == IF k = 0 THEN 1 ELSE a * Pow(a, k - 1)

RECURSIVE SeqSum(_)
SeqSum(s) == IF s = <<>> THEN 0 ELSE Head(s) + SeqSum(Tail(s))

InRange(s, k) == k >= 0 /\ k < Len(s)

At(s, k) == s[k + 1]

SeqsUpTo(S, n) == UNION {[1..k -> S] : k \in 0..n}

Zeros(n) == [j \in 1..n |-> 0]

(***************************************************************************)
(* ProfConfig and insertPoints.                                            *)
(***************************************************************************)
ProfConfig(bins, rMaxMult, rMinMult) ==
    [bins |-> bins, rMaxMult |-> rMaxMult, rMinMult |-> rMinMult]

\* The value of a ProfConfig that nothing has set.
ZeroProfConfig == ProfConfig(0, Rat(0, 1), Rat(0, 1))

\* r2 := dx*dx + dy*dy + dz*dz
Dist2(vec, c) == Sq(vec[1] - c[1]) + Sq(vec[2] - c[2]) + Sq(vec[3] - c[3])

\* r2 <= rMin2, with rMin2 = (s.R * rMinMult)^2
BelowMin(r2, s, config) ==
    r2 * Sq(config.rMinMult.d) <= Sq(s.R * config.rMinMult.n)

\* r2 >= rMax2, with rMax2 = (s.R * rMaxMult)^2
AboveMax(r2, s, config) ==
    r2 * Sq(config.rMaxMult.d) >= Sq(s.R * config.rMaxMult.n)

\* The condition of the if statement in the particle loop.
Discarded(r2, s, config) == BelowMin(r2, s, config) \/ AboveMax(r2, s, config)

\* ir := int((lr - lrMin) / dlr) with lr = ln(r2)/2 and
\* dlr = (ln(rMax) - ln(rMin)) / bins, for a particle that is not discarded.
\* k <= ir  iff  (r2/rMin2)^bins >= (rMax2/rMin2)^k, stated on integers.
\* With bins = 0, dlr is +Inf and the quotient is 0.
BinIndex(r2, s, config) ==
    LET a == r2 * Sq(config.rMinMult.d)
        b == Sq(s.R * config.rMinMult.n)
        p == Sq(config.rMaxMult.n * config.rMinMult.d)
        q == Sq(config.rMinMult.n * config.rMaxMult.d)
        n == config.bins
        ks == {k \in 0..(n - 1) :
                  Pow(a, n) * Pow(q, k) >= Pow(p, k) * Pow(b, n)}
    IN  IF n <= 0 \/ ks = {} THEN 0
        ELSE CHOOSE k \in ks : \A k2 \in ks : k2 <= k

\* What the loop does on meeting a discarded particle: the function returns,
\* so the particles after it are not examined.
OnDiscarded(rhos, s, xs, ms, config, i, rest) ==
    [rhos |-> rhos, panicked |-> FALSE]

\* The particle loop from 0-based position i on.  The result is the bins and
\* whether rhos[ir] was out of range (a run-time panic).
RECURSIVE InsertFrom(_, _, _, _, _, _)
InsertFrom(rhos, s, xs, ms, config, i) ==
    IF ~InRange(xs, i) THEN [rhos |-> rhos, panicked |-> FALSE]
    ELSE LET r2 == Dist2(At(xs, i), s.C)
             ir == BinIndex(r2, s, config)
         IN  IF Discarded(r2, s, config)
             THEN OnDiscarded(rhos, s, xs, ms, config, i,
                              InsertFrom(rhos, s, xs, ms, config, i + 1))
             ELSE IF ~InRange(rhos, ir)
                  THEN [rhos |-> rhos, panicked |-> TRUE]
                  ELSE InsertFrom([rhos EXCEPT ![ir + 1] = @ + At(ms, i)],
                                  s, xs, ms, config, i + 1)

insertPoints(rhos, s, xs, ms, config) == InsertFrom(rhos, s, xs, ms, config, 0)

(***************************************************************************)
(* State.                                                                  *)
(***************************************************************************)
VARIABLES
    \* one call of insertPoints on its own
    ipPc, ipRhos, ipRhos0, ipS, ipXs, ipMs, ipConfig, ipPanicked,
    \* TreeConfig.Run
    tPc, tInputIDs, tSnapMin, tSnapMax, tIdSets, tSnapSets, tI, tIds, tSnaps,
    tLines, tFLines, tOut,
    \* ProfConfig.Run, called by main
    pPc, pStdin, pConfig, pIds, pSnaps, pCoords, pIdxBins, pSortedSnaps,
    pRSets, pRhoSets, pSi, pBi, pIdxs, pHBounds, pIntrIdxs, pSupports, pOut,
    pPanic,
    \* what ProfConfig.Run asked of its environment, in order
    pLookups, pHdReads, pBlkReads, pFailedRead,
    \* the process: standard output and exit status
    stdout, exitStatus,
    \* main in prof mode, up to the call of Run
    cPc, cHasFile, cFile, cConfig, cValidate, cRanWith,
    \* one call of processProfile on the bins of one halo
    prPc, prConfig, prR200m, prRs, prRhos,
    \* the loop of ProfConfig.Run over the blocks of one snapshot
    bkPc, bkHds, bkHBounds, bkConfig, bkRhoSets, bkBi,
    \* the runs of main that share one MemoDir: the file memo.config, and
    \* of the current run its global config file and its position
    mmPc, mmMemo, mmFile, mmRuns, mmRejected, mmModeRan,
    \* one call of getFlags
    fgPc, fgArgs, fgGiven, fgFlags, fgPanicked,
    \* a pipe of Shellfish processes: the finished stages and the current one
    piPc, piStage, piMode, piStdin, piLines, piStdout, piExit, piReadConfigs,
    piRanMode, piFailedAt, piLog

ipVars == <<ipPc, ipRhos, ipRhos0, ipS, ipXs, ipMs, ipConfig, ipPanicked>>

treeVars == <<tPc, tInputIDs, tSnapMin, tSnapMax, tIdSets, tSnapSets, tI, tIds,
              tSnaps, tLines, tFLines, tOut>>

profVars == <<pPc, pStdin, pConfig, pIds, pSnaps, pCoords, pIdxBins,
              pSortedSnaps, pRSets, pRhoSets, pSi, pBi, pIdxs, pHBounds,
              pIntrIdxs, pSupports, pOut, pPanic, pLookups, pHdReads, pBlkReads,
              pFailedRead>>

procVars == <<stdout, exitStatus>>

cfgVars == <<cPc, cHasFile, cFile, cConfig, cValidate, cRanWith>>

prVars == <<prPc, prConfig, prR200m, prRs, prRhos>>

bkVars == <<bkPc, bkHds, bkHBounds, bkConfig, bkRhoSets, bkBi>>

mmVars == <<mmPc, mmMemo, mmFile, mmRuns, mmRejected, mmModeRan>>

fgVars == <<fgPc, fgArgs, fgGiven, fgFlags, fgPanicked>>

piVars == <<piPc, piStage, piMode, piStdin, piLines, piStdout, piExit,
            piReadConfigs, piRanMode, piFailedAt, piLog>>

\* The variables of the specifications of single functions and of the driver
\* around the modes.
auxVars == <<prVars, bkVars, mmVars, fgVars, piVars>>

\* What the actions of one specification leave alone.
restOfProfile ==
    <<ipVars, treeVars, profVars, procVars, cfgVars, bkVars, mmVars,
      fgVars, piVars>>

restOfBlocks ==
    <<ipVars, treeVars, profVars, procVars, cfgVars, prVars, mmVars,
      fgVars, piVars>>

restOfMemo ==
    <<ipVars, treeVars, profVars, cfgVars, prVars, bkVars,
      fgVars, piVars>>

restOfFlags ==
    <<ipVars, treeVars, profVars, procVars, cfgVars, prVars, bkVars,
      mmVars, piVars>>

restOfPipe ==
    <<ipVars, treeVars, profVars, procVars, cfgVars, prVars, bkVars,
      mmVars, fgVars>>

vars == <<ipVars, treeVars, profVars, procVars, cfgVars, auxVars>>

(***************************************************************************)
(* Specification SpecInsert: insertPoints applied to one block and one     *)
(* halo sphere.                                                            *)
(***************************************************************************)
Positions == {<<0, 0, 0>>, <<1, 0, 0>>, <<2, 0, 0>>, <<1, 1, 0>>}

Masses == {1, 2}

Particles == [x : Positions, m : Masses]

Spheres == [C : {<<0, 0, 0>>, <<1, 0, 0>>}, R : {1, 2}]

\* Configurations ProfConfig.validate accepts.
InsertConfigs ==
    { ProfConfig(1, Rat(2, 1), Rat(1, 2)),
      ProfConfig(2, Rat(2, 1), Rat(1, 2)),
      ProfConfig(3, Rat(3, 1), Rat(1, 3)) }

\* What Run returns: its lines and whether its error is non-nil.
RunResult(lines, err) == [lines |-> lines, err |-> err]

NoResult == RunResult(<<>>, FALSE)

TreeIdle ==
    /\ tPc = "idle" /\ tInputIDs = <<>> /\ tSnapMin = 0 /\ tSnapMax = 0
    /\ tIdSets = <<>> /\ tSnapSets = <<>> /\ tI = 0 /\ tIds = <<>>
    /\ tSnaps = <<>> /\ tLines = <<>> /\ tFLines = <<>> /\ tOut = NoResult

ProfIdle ==
    /\ pPc = "idle" /\ pStdin = <<>>
    /\ pConfig = ZeroProfConfig
    /\ pIds = <<>> /\ pSnaps = <<>> /\ pCoords = <<>> /\ pIdxBins = <<>>
    /\ pSortedSnaps = <<>> /\ pRSets = <<>> /\ pRhoSets = <<>>
    /\ pSi = 0 /\ pBi = 0 /\ pIdxs = <<>> /\ pHBounds = <<>>
    /\ pIntrIdxs = <<>> /\ pSupports = <<>> /\ pOut = NoResult
    /\ pPanic = "no"
    /\ pLookups = <<>> /\ pHdReads = <<>> /\ pBlkReads = <<>>
    /\ pFailedRead = <<>>

\* The process is running: nothing printed, no exit status yet.
ProcInit == stdout = <<>> /\ exitStatus = -1

CfgIdle ==
    /\ cPc = "idle" /\ cHasFile = FALSE /\ cFile = <<>>
    /\ cConfig = ZeroProfConfig /\ cValidate = "notcalled"
    /\ cRanWith = <<>>

PrIdle ==
    /\ prPc = "idle" /\ prConfig = ZeroProfConfig /\ prR200m = 0
    /\ prRs = <<>> /\ prRhos = <<>>

BkIdle ==
    /\ bkPc = "idle" /\ bkHds = <<>> /\ bkHBounds = <<>>
    /\ bkConfig = ZeroProfConfig /\ bkRhoSets = <<>> /\ bkBi = 0

MmIdle ==
    /\ mmPc = "idle" /\ mmMemo = <<>> /\ mmFile = <<>> /\ mmRuns = 0
    /\ mmRejected = 0 /\ mmModeRan = FALSE

FgIdle ==
    /\ fgPc = "idle" /\ fgArgs = <<>> /\ fgGiven = <<>> /\ fgFlags = <<>>
    /\ fgPanicked = FALSE

PiIdle ==
    /\ piPc = "idle" /\ piStage = 0 /\ piMode = "" /\ piStdin = <<>>
    /\ piLines = <<>> /\ piStdout = <<>> /\ piExit = -1
    /\ piReadConfigs = FALSE /\ piRanMode = FALSE /\ piFailedAt = ""
    /\ piLog = <<>>

AuxIdle == PrIdle /\ BkIdle /\ MmIdle /\ FgIdle /\ PiIdle

IpIdle ==
    /\ ipPc = "idle" /\ ipRhos = <<>> /\ ipRhos0 = <<>>
    /\ ipS = [C |-> <<0, 0, 0>>, R |-> 1]
    /\ ipXs = <<>> /\ ipMs = <<>>
    /\ ipConfig = ZeroProfConfig
    /\ ipPanicked = FALSE

IpInit ==
    /\ ipPc = "ready"
    /\ ipConfig \in InsertConfigs
    /\ ipS \in Spheres
    /\ \E ps \in SeqsUpTo(Particles, MaxParticles) :
          /\ ipXs = [k \in 1..Len(ps) |-> ps[k].x]
          /\ ipMs = [k \in 1..Len(ps) |-> ps[k].m]
    /\ ipRhos0 = Zeros(ipConfig.bins)
    /\ ipRhos = ipRhos0
    /\ ipPanicked = FALSE

InsertPointsCall ==
    /\ ipPc = "ready"
    /\ LET res == insertPoints(ipRhos, ipS, ipXs, ipMs, ipConfig)
       IN  /\ ipRhos' = res.rhos
           /\ ipPanicked' = res.panicked
    /\ ipPc' = "done"
    /\ UNCHANGED <<ipRhos0, ipS, ipXs, ipMs, ipConfig>>
    /\ UNCHANGED <<treeVars, profVars, procVars, cfgVars, auxVars>>

InitInsert == IpInit /\ TreeIdle /\ ProfIdle /\ ProcInit /\ CfgIdle /\ AuxIdle

NextInsert == InsertPointsCall

SpecInsert == InitInsert /\ [][NextInsert]_vars

(***************************************************************************)
(* C1.                                                                     *)
(***************************************************************************)
\* The mass of the particles of the block whose squared distance from the
\* centre of s lies strictly between rMin^2 and rMax^2.
RECURSIVE InRangeMass(_, _, _, _)
InRangeMass(xs, ms, s, config) ==
    IF xs = <<>> THEN 0
    ELSE (IF Discarded(Dist2(Head(xs), s.C), s, config) THEN 0 ELSE Head(ms))
         + InRangeMass(Tail(xs), Tail(ms), s, config)

\* C1: one call of insertPoints increases the sum of the halo's raw bins by
\* exactly the total mass of the particles of the block with
\* rMin^2 < r2 < rMax^2; a discarded particle is excluded on its own and the
\* particles after it are still examined.
C1_MassConservation ==
    ipPc = "done" =>
        SeqSum(ipRhos) = SeqSum(ipRhos0) + InRangeMass(ipXs, ipMs, ipS, ipConfig)

(***************************************************************************)
(* Specification SpecTree: TreeConfig.Run.                                 *)
(***************************************************************************)
\* The merger trees on disk: each halo's snapshot and main progenitor
\* (0: none).  Halo 8 is in no tree.
Forest ==
    [id \in {1, 3, 4, 5, 7} |->
        CASE id = 5 -> [snap |-> 10, prog |-> 3]
          [] id = 3 -> [snap |-> 9, prog |-> 0]
          [] id = 7 -> [snap |-> 10, prog |-> 0]
          [] id = 4 -> [snap |-> 7, prog |-> 1]
          [] id = 1 -> [snap |-> 3, prog |-> 0]]

SeedIDs == {4, 5, 7, 8}

\* The configured (snapMin, snapMax).
SnapRanges == {<<5, 10>>, <<3, 10>>, <<9, 10>>, <<7, 7>>}

\* The main-progenitor branch of a halo, from the halo backward.
RECURSIVE Branch(_)
Branch(id) ==
    IF id \notin DOMAIN Forest THEN <<>>
    ELSE <<[id |-> id, snap |-> Forest[id].snap]>> \o Branch(Forest[id].prog)

\* tree.HaloHistories: one branch per input id, as an id column and a
\* snapshot column.
HaloHistories(inputIDs) ==
    [idSets |-> [k \in 1..Len(inputIDs) |->
                    [j \in 1..Len(Branch(inputIDs[k])) |->
                        Branch(inputIDs[k])[j].id]],
     snapSets |-> [k \in 1..Len(inputIDs) |->
                    [j \in 1..Len(Branch(inputIDs[k])) |->
                        Branch(inputIDs[k])[j].snap]]]

\* catalog.FormatCols on two integer columns: one line per row.
FormatCols(ids, snaps) == [k \in 1..Len(ids) |-> <<ids[k], snaps[k]>>]

\* catalog.TreeCommentString: the header line.
TreeCommentString == <<"ID", "Snapshot">>

Sentinel == -1

\* i != len(idSets) - 1, for the 0-based i of the loop.
NeedsSentinelAlways(i, n) == TRUE

NeedsSentinel(i, n) == i # n - 1

\* The test of the filter loop on the snapshot of a line.
InSnapRange(snap, snapMin, snapMax) == snap <= snapMin /\ snap >= snapMax

TreeInit ==
    /\ tPc = "start"
    /\ tInputIDs \in SeqsUpTo(SeedIDs, MaxSeeds)
    /\ \E r \in SnapRanges : tSnapMin = r[1] /\ tSnapMax = r[2]
    /\ tIdSets = <<>> /\ tSnapSets = <<>> /\ tI = 0 /\ tIds = <<>>
    /\ tSnaps = <<>> /\ tLines = <<>> /\ tFLines = <<>> /\ tOut = NoResult

\* Lines 27-42: ParseCols, treeFiles and HaloHistories; each may fail, and
\* Run then returns nil and the error.
TreeHistories ==
    /\ tPc = "start"
    /\ \E ok \in BOOLEAN :
          IF ok
          THEN /\ tIdSets' = HaloHistories(tInputIDs).idSets
               /\ tSnapSets' = HaloHistories(tInputIDs).snapSets
               /\ tPc' = "concat"
               /\ tOut' = tOut
          ELSE /\ tPc' = "returned"
               /\ tOut' = RunResult(<<>>, TRUE)
               /\ UNCHANGED <<tIdSets, tSnapSets>>
    /\ tI' = 0 /\ tIds' = <<>> /\ tSnaps' = <<>>
    /\ UNCHANGED <<tInputIDs, tSnapMin, tSnapMax, tLines, tFLines>>
    /\ UNCHANGED <<ipVars, profVars, procVars, cfgVars, auxVars>>

\* Lines 43-51: one iteration of the loop over idSets.
TreeConcatStep ==
    /\ tPc = "concat"
    /\ InRange(tIdSets, tI)
    /\ LET sent == IF NeedsSentinel(tI, Len(tIdSets))
                   THEN <<Sentinel>> ELSE <<>>
       IN  /\ tIds' = tIds \o At(tIdSets, tI) \o sent
           /\ tSnaps' = tSnaps \o At(tSnapSets, tI) \o sent
    /\ tI' = tI + 1
    /\ UNCHANGED <<tPc, tInputIDs, tSnapMin, tSnapMax, tIdSets, tSnapSets,
                   tLines, tFLines, tOut>>
    /\ UNCHANGED <<ipVars, profVars, procVars, cfgVars, auxVars>>

\* Lines 54-57: the loop is over; the lines are formatted.
TreeFormat ==
    /\ tPc = "concat"
    /\ ~InRange(tIdSets, tI)
    /\ tLines' = FormatCols(tIds, tSnaps)
    /\ tFLines' = <<>>
    /\ tI' = 0
    /\ tPc' = "filter"
    /\ UNCHANGED <<tInputIDs, tSnapMin, tSnapMax, tIdSets, tSnapSets, tIds,
                   tSnaps, tOut>>
    /\ UNCHANGED <<ipVars, profVars, procVars, cfgVars, auxVars>>

\* Lines 58-64: one iteration of the loop over lines.
TreeFilterStep ==
    /\ tPc = "filter"
    /\ InRange(tLines, tI)
    /\ tFLines' = IF InSnapRange(At(tSnaps, tI), tSnapMin, tSnapMax)
                  THEN Append(tFLines, At(tLines, tI))
                  ELSE tFLines
    /\ tI' = tI + 1
    /\ UNCHANGED <<tPc, tInputIDs, tSnapMin, tSnapMax, tIdSets, tSnapSets,
                   tIds, tSnaps, tLines, tOut>>
    /\ UNCHANGED <<ipVars, profVars, procVars, cfgVars, auxVars>>

\* Lines 66-70: the header line and the filtered lines are returned.
TreeReturn ==
    /\ tPc = "filter"
    /\ ~InRange(tLines, tI)
    /\ tOut' = RunResult(<<TreeCommentString>> \o tFLines, FALSE)
    /\ tPc' = "returned"
    /\ UNCHANGED <<tInputIDs, tSnapMin, tSnapMax, tIdSets, tSnapSets, tI,
                   tIds, tSnaps, tLines, tFLines>>
    /\ UNCHANGED <<ipVars, profVars, procVars, cfgVars, auxVars>>

InitTree == TreeInit /\ IpIdle /\ ProfIdle /\ ProcInit /\ CfgIdle /\ AuxIdle

NextTree ==
    \/ TreeHistories
    \/ TreeConcatStep
    \/ TreeFormat
    \/ TreeFilterStep
    \/ TreeReturn

SpecTree == InitTree /\ [][NextTree]_vars

(***************************************************************************)
(* C3, C4, C5.                                                             *)
(***************************************************************************)
Range(s) == {s[k] : k \in DOMAIN s}

\* The loop over idSets is over and Run has not failed.
TreeConcatDone ==
    \/ tPc = "filter"
    \/ tPc = "returned" /\ ~tOut.err

TreeSucceeded == tPc = "returned" /\ ~tOut.err

\* The rows returned, header line aside.
TreeRows == Tail(tOut.lines)

\* The branch of the k-th seed as rows.
BranchRows(k) ==
    [j \in 1..Len(Branch(tInputIDs[k])) |->
        <<Branch(tInputIDs[k])[j].id, Branch(tInputIDs[k])[j].snap>>]

\* A stream of rows split at its (-1, -1) rows.
RECURSIVE SplitAtSentinels(_)
SplitAtSentinels(rows) ==
    IF \A k \in DOMAIN rows : rows[k] # <<Sentinel, Sentinel>>
    THEN <<rows>>
    ELSE LET k == CHOOSE j \in DOMAIN rows :
                     /\ rows[j] = <<Sentinel, Sentinel>>
                     /\ \A h \in 1..(j - 1) : rows[h] # <<Sentinel, Sentinel>>
         IN  <<SubSeq(rows, 1, k - 1)>>
             \o SplitAtSentinels(SubSeq(rows, k + 1, Len(rows)))

InConfiguredRange(row) == tSnapMin <= row[2] /\ row[2] <= tSnapMax

\* C3: a history row with snapshot s is in the output of TreeConfig.Run if
\* and only if snapMin <= s <= snapMax.
C3_InclusiveRange ==
    (TreeSucceeded /\ tSnapMin <= tSnapMax) =>
        \A k \in DOMAIN tLines :
            tLines[k] # <<Sentinel, Sentinel>> =>
                (tLines[k] \in Range(TreeRows) <=> InConfiguredRange(tLines[k]))

\* C4: before range filtering the (id, snapshot) stream is the seeds' branches
\* in seed order with exactly one (-1, -1) row between the branches of
\* consecutive seeds, none leading and none trailing; the two columns have
\* the same length; seeds 5 and 7 give (5,10),(3,9),(-1,-1),(7,10).
C4_SentinelFraming ==
    TreeConcatDone =>
        /\ Len(tIds) = Len(tSnaps)
        /\ Cardinality({k \in DOMAIN tIds : tIds[k] = Sentinel})
              = (IF tInputIDs = <<>> THEN 0 ELSE Len(tInputIDs) - 1)
        /\ \A k \in DOMAIN tIds : tIds[k] = Sentinel <=> tSnaps[k] = Sentinel
        /\ IF tInputIDs = <<>> THEN tIds = <<>>
           ELSE SplitAtSentinels(FormatCols(tIds, tSnaps))
                    = [k \in 1..Len(tInputIDs) |-> BranchRows(k)]
        /\ tInputIDs = <<5, 7>> =>
              FormatCols(tIds, tSnaps)
                  = << <<5, 10>>, <<3, 9>>, <<-1, -1>>, <<7, 10>> >>

C4_Witness ==
    /\ tPc = "filter"
    /\ tInputIDs = <<5, 7>>
    /\ tLines = << <<5, 10>>, <<3, 9>>, <<-1, -1>>, <<7, 10>> >>

\* C5: the rows returned, split at the (-1, -1) rows, are one segment per
\* seed in seed order, each the seed's branch restricted to the configured
\* snapshot range; a seed in no tree gives an empty segment.
C5_SplitBackPerSeed ==
    (TreeSucceeded /\ tInputIDs # <<>>) =>
        SplitAtSentinels(TreeRows)
            = [k \in 1..Len(tInputIDs) |->
                  SelectSeq(BranchRows(k), InConfiguredRange)]

(***************************************************************************)
(* Specification SpecProf: main running ProfConfig.Run on a halo table.    *)
(***************************************************************************)
\* The particle catalog of a snapshot: its blocks in header order, each with
\* the region it covers along x, its particle positions and their masses.
Hds ==
    << [lo |-> 0, hi |-> 2, xs |-> << <<0, 0, 0>>, <<1, 0, 0>> >>,
        ms |-> <<1, 2>>],
       [lo |-> 2, hi |-> 4, xs |-> << <<2, 0, 0>>, <<3, 0, 0>> >>,
        ms |-> <<1, 1>>],
       [lo |-> 4, hi |-> 6, xs |-> << <<5, 0, 0>> >>, ms |-> <<2>>] >>

\* The rows of the input table: ID, Snapshot, X, Y, Z, R200m.  The ID of a
\* row is filled in by ProfInit.
InputSnaps == {-1, 2, 5}

\* (X, R200m) of a row.
InputHalos == {<<0, 1>>, <<3, 2>>}

\* The configurations main can hand to Run: the zero value that
\* ReadConfig("") leaves, and configurations validate accepts.
RunConfigs ==
    { ZeroProfConfig,
      ProfConfig(0, Rat(2, 1), Rat(1, 2)),
      ProfConfig(2, Rat(2, 1), Rat(1, 2)) }

\* catalog.ParseCols: column c (0-based) of the table.
ParseCol(stdin, c) == [k \in 1..Len(stdin) |-> At(stdin[k], c)]

\* binBySnap: for each snapshot of the table, the 0-based indices of its rows
\* in row order.
RECURSIVE IdxsOfSnap(_, _, _)
IdxsOfSnap(snaps, snap, i) ==
    IF ~InRange(snaps, i) THEN <<>>
    ELSE (IF At(snaps, i) = snap THEN <<i>> ELSE <<>>)
         \o IdxsOfSnap(snaps, snap, i + 1)

binBySnap(snaps) ==
    [snap \in {snaps[k] : k \in DOMAIN snaps} |-> IdxsOfSnap(snaps, snap, 0)]

\* The orders in which a range over a map can visit the keys.
KeyOrders(keys) ==
    {f \in [1..Cardinality(keys) -> keys] :
        \A a, b \in DOMAIN f : a # b => f[a] # f[b]}

\* sort.Ints
RECURSIVE InsertSorted(_, _)
InsertSorted(s, v) ==
    IF s = <<>> THEN <<v>>
    ELSE IF v <= Head(s) THEN <<v>> \o s
    ELSE <<Head(s)>> \o InsertSorted(Tail(s), v)

RECURSIVE SortIntsOf(_)
SortIntsOf(s) ==
    IF s = <<>> THEN <<>> ELSE InsertSorted(SortIntsOf(Tail(s)), Head(s))

SortIntsMissing(s) == s

SortInts(s) == SortIntsOf(s)

\* boundingSpheres: one sphere per halo of the snapshot, centred on the halo
\* with the halo's R200m as radius.
boundingSpheres(snapCoords) ==
    [j \in 1..Len(snapCoords[1]) |->
        [C |-> <<snapCoords[1][j], snapCoords[2][j], snapCoords[3][j]>>,
         R |-> snapCoords[4][j]]]

\* Whether a sphere overlaps the region of a block.
SphereIntersects(s, hd) == s.C[1] - s.R < hd.hi /\ s.C[1] + s.R >= hd.lo

\* binSphereIntersections: for each block, the 0-based indices of the
\* spheres that overlap it, ascending.
RECURSIVE IntersectingFrom(_, _, _)
IntersectingFrom(hd, hBounds, j) ==
    IF ~InRange(hBounds, j) THEN <<>>
    ELSE (IF SphereIntersects(At(hBounds, j), hd) THEN <<j>> ELSE <<>>)
         \o IntersectingFrom(hd, hBounds, j + 1)

binSphereIntersections(hds, hBounds) ==
    [i \in 1..Len(hds) |-> IntersectingFrom(hds[i], hBounds, 0)]

\* Lines 172-177: insertPoints for each halo that intersects the block, from
\* position k of intr on.
RECURSIVE AccumulateBlock(_, _, _, _, _, _, _, _)
AccumulateBlock(rhoSets, idxs, hBounds, intr, xs, ms, config, k) ==
    IF ~InRange(intr, k) THEN [rhoSets |-> rhoSets, panicked |-> FALSE]
    ELSE LET j == At(intr, k)
             row == At(idxs, j)
             res == insertPoints(At(rhoSets, row), At(hBounds, j), xs, ms,
                                 config)
             upd == [rhoSets EXCEPT ![row + 1] = res.rhos]
         IN  IF res.panicked THEN [rhoSets |-> upd, panicked |-> TRUE]
             ELSE AccumulateBlock(upd, idxs, hBounds, intr, xs, ms, config,
                                  k + 1)

RatMul(v, mult) == Rat(v * mult.n, mult.d)

\* processProfile: the radius of bin j is exp(lrMin + dlr*(j + 0.5)) and its
\* density is rhos[j] / dV; both are kept as the terms they are computed from.
processProfile(rs, rhos, rMin, rMax) ==
    [rs |-> [j \in 1..Len(rs) |->
                [rMin |-> rMin, rMax |-> rMax, j |-> j - 1, n |-> Len(rs)]],
     rhos |-> [j \in 1..Len(rs) |->
                [mass |-> rhos[j], rMin |-> rMin, rMax |-> rMax,
                 j |-> j - 1, n |-> Len(rs)]]]

\* Lines 183-187: the loop over rSets from 0-based i on.  coords[i][4] is
\* column i of the parsed float columns at row 4; an index out of range is a
\* run-time panic.
RECURSIVE NormalizeFrom(_, _, _, _, _, _)
NormalizeFrom(rSets, rhoSets, supports, coords, config, i) ==
    IF ~InRange(rSets, i)
    THEN [rSets |-> rSets, rhoSets |-> rhoSets, supports |-> supports,
          panicked |-> FALSE]
    ELSE IF ~InRange(coords, i) \/ ~InRange(At(coords, i), 4)
    THEN [rSets |-> rSets, rhoSets |-> rhoSets, supports |-> supports,
          panicked |-> TRUE]
    ELSE LET rMax == RatMul(At(At(coords, i), 4), config.rMaxMult)
             rMin == RatMul(At(At(coords, i), 4), config.rMinMult)
             prof == processProfile(At(rSets, i), At(rhoSets, i), rMin, rMax)
         IN  NormalizeFrom([rSets EXCEPT ![i + 1] = prof.rs],
                           [rhoSets EXCEPT ![i + 1] = prof.rhos],
                           Append(supports, [rMin |-> rMin, rMax |-> rMax]),
                           coords, config, i + 1)

\* Lines 189-196: transpose and catalog.FormatCols: one line per halo, its ID
\* and snapshot followed by its radii and then its densities.
ProfFormatCols(ids, snaps, rSets, rhoSets) ==
    [k \in 1..Len(ids) |-> <<ids[k], snaps[k]>> \o rSets[k] \o rhoSets[k]]

\* Lines 198-202: the header line.
ProfCommentString(config) ==
    <<"ID", "Snapshot", "R [cMpc/h]", "Rho [h^2 Msun/cMpc^3]", 1, 1,
      config.bins, config.bins>>

\* return nil, err
ReturnErrWithLines == RunResult(<<ProfCommentString(pConfig)>>, TRUE)

ReturnErr == RunResult(<<>>, TRUE)

Terminating == "Shellfish terminating."

ProfInit ==
    /\ pPc = "start"
    /\ pConfig \in RunConfigs
    /\ \E n \in 1..MaxHalos :
          \E rows \in [1..n -> InputSnaps \X InputHalos] :
              pStdin = [k \in 1..n |->
                          <<k, rows[k][1], rows[k][2][1], 0, 0,
                            rows[k][2][2]>>]
    /\ pIds = <<>> /\ pSnaps = <<>> /\ pCoords = <<>> /\ pIdxBins = <<>>
    /\ pSortedSnaps = <<>> /\ pRSets = <<>> /\ pRhoSets = <<>>
    /\ pSi = 0 /\ pBi = 0 /\ pIdxs = <<>> /\ pHBounds = <<>>
    /\ pIntrIdxs = <<>> /\ pSupports = <<>> /\ pOut = NoResult
    /\ pPanic = "no"
    /\ pLookups = <<>> /\ pHdReads = <<>> /\ pBlkReads = <<>>
    /\ pFailedRead = <<>>

\* Lines 94-122: the table is parsed, the rows are grouped by snapshot, the
\* bins are allocated and the snapshots are sorted.
ProfParse ==
    /\ pPc = "start"
    /\ \E ok \in BOOLEAN :
          IF ok
          THEN /\ pIds' = ParseCol(pStdin, 0)
               /\ pSnaps' = ParseCol(pStdin, 1)
               /\ pCoords' = <<ParseCol(pStdin, 2), ParseCol(pStdin, 3),
                               ParseCol(pStdin, 4), ParseCol(pStdin, 5)>>
               /\ pIdxBins' = binBySnap(pSnaps')
               /\ pRSets' = [k \in 1..Len(pStdin) |-> Zeros(pConfig.bins)]
               /\ pRhoSets' = [k \in 1..Len(pStdin) |-> Zeros(pConfig.bins)]
               /\ \E order \in KeyOrders(DOMAIN pIdxBins') :
                     pSortedSnaps' = SortInts(order)
               /\ pPc' = "buffer"
               /\ pOut' = pOut
          ELSE /\ pPc' = "returned"
               /\ pOut' = ReturnErr
               /\ UNCHANGED <<pIds, pSnaps, pCoords, pIdxBins, pRSets,
                              pRhoSets, pSortedSnaps>>
    /\ UNCHANGED <<pStdin, pConfig, pSi, pBi, pIdxs, pHBounds, pIntrIdxs,
                   pSupports, pPanic, pLookups, pHdReads, pBlkReads,
                   pFailedRead, stdout, exitStatus>>
    /\ UNCHANGED <<ipVars, treeVars, cfgVars, auxVars>>

\* Lines 124-130: the vector buffer is made from the particle catalog of the
\* snapshot of the first row.
ProfGetBuffer ==
    /\ pPc = "buffer"
    /\ pLookups' = Append(pLookups, At(pSnaps, 0))
    /\ \E ok \in BOOLEAN :
          IF ok
          THEN pPc' = "snaps" /\ pOut' = pOut
          ELSE pPc' = "returned" /\ pOut' = ReturnErr
    /\ pSi' = 0
    /\ UNCHANGED <<pStdin, pConfig, pIds, pSnaps, pCoords, pIdxBins,
                   pSortedSnaps, pRSets, pRhoSets, pBi, pIdxs, pHBounds,
                   pIntrIdxs, pSupports, pPanic, pHdReads, pBlkReads,
                   pFailedRead, stdout, exitStatus>>
    /\ UNCHANGED <<ipVars, treeVars, cfgVars, auxVars>>

\* Lines 132-158: the head of one iteration of the loop over sortedSnaps: the
\* snapshot -1 is skipped; otherwise the headers of the snapshot are read and
\* the halo spheres are matched with the blocks.
ProfSnapStep ==
    /\ pPc = "snaps"
    /\ InRange(pSortedSnaps, pSi)
    /\ LET snap == At(pSortedSnaps, pSi)
           idxs == pIdxBins[snap]
           snapCoords == [c \in 1..4 |->
                             [k \in 1..Len(idxs) |-> At(pCoords[c], idxs[k])]]
           hBounds == boundingSpheres(snapCoords)
       IN  IF snap = -1
           THEN /\ pSi' = pSi + 1
                /\ UNCHANGED <<pPc, pIdxs, pHBounds, pIntrIdxs, pOut,
                               pHdReads, pFailedRead>>
           ELSE /\ pHdReads' = Append(pHdReads, snap)
                /\ \E res \in {"ok", "headers", "spheres"} :
                      IF res = "ok"
                      THEN /\ pIdxs' = idxs
                           /\ pHBounds' = hBounds
                           /\ pIntrIdxs' = binSphereIntersections(Hds, hBounds)
                           /\ pPc' = "blocks"
                           /\ UNCHANGED <<pOut, pFailedRead>>
                      ELSE /\ pOut' = ReturnErr
                           /\ pFailedRead' = IF res = "headers"
                                             THEN <<"headers", snap>>
                                             ELSE pFailedRead
                           /\ pPc' = "returned"
                           /\ UNCHANGED <<pIdxs, pHBounds, pIntrIdxs>>
                /\ pSi' = pSi
    /\ pBi' = 0
    /\ UNCHANGED <<pStdin, pConfig, pIds, pSnaps, pCoords, pIdxBins,
                   pSortedSnaps, pRSets, pRhoSets, pSupports, pPanic,
                   pLookups, pBlkReads, stdout, exitStatus>>
    /\ UNCHANGED <<ipVars, treeVars, cfgVars, auxVars>>

\* Whether the loop over the blocks reads block i: it skips a block that no
\* halo sphere intersects.
ReadsBlock(intrIdxs, i) == Len(At(intrIdxs, i)) # 0

\* Where the loops go after block pBi.
AfterBlock ==
    IF InRange(Hds, pBi + 1)
    THEN /\ pBi' = pBi + 1 /\ pSi' = pSi /\ pPc' = "blocks"
    ELSE /\ pBi' = 0 /\ pSi' = pSi + 1 /\ pPc' = "snaps"

\* Lines 160-180: one iteration of the loop over the blocks of the snapshot.
ProfBlockStep ==
    /\ pPc = "blocks"
    /\ InRange(Hds, pBi)
    /\ LET snap == At(pSortedSnaps, pSi)
           hd == At(Hds, pBi)
           acc == AccumulateBlock(pRhoSets, pIdxs, pHBounds,
                                  At(pIntrIdxs, pBi), hd.xs, hd.ms, pConfig, 0)
       IN  IF ~ReadsBlock(pIntrIdxs, pBi)
           THEN /\ AfterBlock
                /\ UNCHANGED <<pRhoSets, pOut, pPanic, pBlkReads, pFailedRead>>
           ELSE /\ pBlkReads' = Append(pBlkReads, <<snap, pBi>>)
                /\ \E ok \in BOOLEAN :
                      IF ~ok
                      THEN /\ pOut' = ReturnErr
                           /\ pFailedRead' = <<"block", snap, pBi>>
                           /\ pPc' = "returned"
                           /\ UNCHANGED <<pRhoSets, pPanic, pBi, pSi>>
                      ELSE /\ pRhoSets' = acc.rhoSets
                           /\ IF acc.panicked
                              THEN /\ pPanic' = "insertPoints"
                                   /\ pPc' = "returned"
                                   /\ UNCHANGED <<pBi, pSi>>
                              ELSE /\ AfterBlock
                                   /\ pPanic' = pPanic
                           /\ UNCHANGED <<pOut, pFailedRead>>
    /\ UNCHANGED <<pStdin, pConfig, pIds, pSnaps, pCoords, pIdxBins,
                   pSortedSnaps, pRSets, pIdxs, pHBounds, pIntrIdxs,
                   pSupports, pLookups, pHdReads, stdout, exitStatus>>
    /\ UNCHANGED <<ipVars, treeVars, cfgVars, auxVars>>

\* Lines 183-209: the profiles are normalized and the lines are returned.
ProfNormalize ==
    /\ pPc = "snaps"
    /\ ~InRange(pSortedSnaps, pSi)
    /\ LET res == NormalizeFrom(pRSets, pRhoSets, <<>>, pCoords, pConfig, 0)
       IN  /\ pRSets' = res.rSets
           /\ pRhoSets' = res.rhoSets
           /\ pSupports' = res.supports
           /\ IF res.panicked
              THEN pPanic' = "normalize" /\ pOut' = pOut
              ELSE /\ pPanic' = pPanic
                   /\ pOut' = RunResult(
                         <<ProfCommentString(pConfig)>>
                         \o ProfFormatCols(pIds, pSnaps, res.rSets,
                                           res.rhoSets), FALSE)
    /\ pPc' = "returned"
    /\ UNCHANGED <<pStdin, pConfig, pIds, pSnaps, pCoords, pIdxBins,
                   pSortedSnaps, pSi, pBi, pIdxs, pHBounds, pIntrIdxs,
                   pLookups, pHdReads, pBlkReads, pFailedRead, stdout,
                   exitStatus>>
    /\ UNCHANGED <<ipVars, treeVars, cfgVars, auxVars>>

\* shellfish.go lines 392-401: main after mode.Run.  A panic ends the process
\* with status 2 and nothing on standard output.
MainAfterRun ==
    /\ pPc = "returned"
    /\ IF pPanic # "no"
       THEN stdout' = stdout /\ exitStatus' = 2
       ELSE IF pOut.err
       THEN stdout' = Append(stdout, Terminating) /\ exitStatus' = 1
       ELSE stdout' = stdout \o pOut.lines /\ exitStatus' = 0
    /\ pPc' = "exited"
    /\ UNCHANGED <<pStdin, pConfig, pIds, pSnaps, pCoords, pIdxBins,
                   pSortedSnaps, pRSets, pRhoSets, pSi, pBi, pIdxs, pHBounds,
                   pIntrIdxs, pSupports, pOut, pPanic, pLookups, pHdReads,
                   pBlkReads, pFailedRead>>
    /\ UNCHANGED <<ipVars, treeVars, cfgVars, auxVars>>

InitProf == ProfInit /\ ProcInit /\ IpIdle /\ TreeIdle /\ CfgIdle /\ AuxIdle

NextProf ==
    \/ ProfParse
    \/ ProfGetBuffer
    \/ ProfSnapStep
    \/ ProfBlockStep
    \/ ProfNormalize
    \/ MainAfterRun

SpecProf == InitProf /\ [][NextProf]_vars

(***************************************************************************)
(* C2, C6, C7, C8.                                                         *)
(***************************************************************************)
ProfReturned == pPc \in {"returned", "exited"}

\* The loop over the snapshots ran to its end.
SnapLoopDone ==
    \/ pPc = "snaps" /\ ~InRange(pSortedSnaps, pSi)
    \/ ProfReturned /\ ~pOut.err /\ pPanic # "insertPoints"

\* The sphere of row k of the input table.
RowSphere(k) ==
    [C |-> <<pStdin[k][3], pStdin[k][4], pStdin[k][5]>>, R |-> pStdin[k][6]]

\* C2: halo i is normalized with rMin = R200m_i * rMinMult and
\* rMax = R200m_i * rMaxMult, R200m_i being the R200m of row i itself; the
\* normalization loop reads only in-range elements of the parsed columns.
C2_PerHaloSupport ==
    (ProfReturned /\ ~pOut.err /\ pPanic # "insertPoints") =>
        /\ pPanic = "no"
        /\ Len(pSupports) = Len(pStdin)
        /\ \A k \in DOMAIN pSupports :
              pSupports[k] = [rMin |-> RatMul(pStdin[k][6], pConfig.rMinMult),
                              rMax |-> RatMul(pStdin[k][6], pConfig.rMaxMult)]

\* C6: the snapshot -1 is never looked up in the particle catalog, never has
\* its headers or blocks read, and its rows receive no mass.
C6_SentinelNeverLoaded ==
    /\ \A k \in DOMAIN pLookups : pLookups[k] # -1
    /\ \A k \in DOMAIN pHdReads : pHdReads[k] # -1
    /\ \A k \in DOMAIN pBlkReads : pBlkReads[k][1] # -1
    /\ pPc \in {"snaps", "blocks"} =>
          \A k \in DOMAIN pRhoSets :
              pSnaps[k] = -1 => SeqSum(pRhoSets[k]) = 0

\* C7: the headers of each snapshot of the input other than -1 are read
\* exactly once, in strictly ascending snapshot order whatever the order of
\* the rows; a block is read at most once per snapshot, and only if a halo
\* sphere of that snapshot intersects it.
C7_ReadDiscipline ==
    /\ \A a, b \in DOMAIN pHdReads : a < b => pHdReads[a] < pHdReads[b]
    /\ \A a \in DOMAIN pHdReads :
          /\ pHdReads[a] # -1
          /\ \E k \in DOMAIN pStdin : pStdin[k][2] = pHdReads[a]
    /\ \A a, b \in DOMAIN pBlkReads : a # b => pBlkReads[a] # pBlkReads[b]
    /\ \A a \in DOMAIN pBlkReads :
          /\ pBlkReads[a][1] \in Range(pHdReads)
          /\ \E k \in DOMAIN pStdin :
                /\ pStdin[k][2] = pBlkReads[a][1]
                /\ SphereIntersects(RowSphere(k), At(Hds, pBlkReads[a][2]))
    /\ SnapLoopDone =>
          Range(pHdReads) = {pStdin[k][2] : k \in DOMAIN pStdin} \ {-1}

\* Rows in descending snapshot order, two halos of snapshot 2 on block 0.
C7_Witness ==
    /\ SnapLoopDone
    /\ ParseCol(pStdin, 1) = <<5, 2, 2>>
    /\ pHdReads = <<2, 5>>
    /\ Len(At(binSphereIntersections(Hds,
                  <<RowSphere(2), RowSphere(3)>>), 0)) = 2
    /\ Cardinality({a \in DOMAIN pBlkReads : pBlkReads[a] = <<2, 0>>}) = 1
    /\ <<5, 0>> \in Range(pBlkReads)
    /\ <<5, 2>> \notin Range(pBlkReads)

\* C8: when a header read or a block read fails, Run returns an error and
\* no lines, main prints no catalog row and exits with a non-zero status,
\* and no read follows the failed one.
C8_FailFast ==
    pFailedRead # <<>> =>
        /\ ProfReturned
        /\ pOut.err
        /\ pOut.lines = <<>>
        /\ pPc = "exited" => (stdout = <<Terminating>> /\ exitStatus = 1)
        /\ pPc = "returned" => stdout = <<>>
        /\ pFailedRead[1] = "headers" =>
              /\ pHdReads[Len(pHdReads)] = pFailedRead[2]
              /\ \A a \in DOMAIN pBlkReads : pBlkReads[a][1] # pFailedRead[2]
        /\ pFailedRead[1] = "block" =>
              pBlkReads[Len(pBlkReads)] = <<pFailedRead[2], pFailedRead[3]>>

\* A block of snapshot 5 fails after snapshot 2 was processed and gave mass
\* to a halo.
C8_Witness ==
    /\ pPc = "exited"
    /\ pFailedRead # <<>>
    /\ pFailedRead[1] = "block"
    /\ pFailedRead[2] = 5
    /\ pHdReads = <<2, 5>>
    /\ \E k \in DOMAIN pRhoSets : pSnaps[k] = 2 /\ SeqSum(pRhoSets[k]) > 0
    /\ exitStatus = 1

(***************************************************************************)
(* Specification SpecConfig: main in prof mode from the reading of the     *)
(* mode's config file to the call of Run.                                  *)
(***************************************************************************)
\* The defaults ReadConfig registers.
DefaultBins == 150

DefaultRMaxMult == Rat(3, 1)

DefaultRMinMult == Rat(3, 100)

\* A field a config file leaves out; a field it sets to v is <<v>>.
Absent == <<>>

\* The prof config files: each optional field is set or left out.
ConfigFiles ==
    [Bins : {Absent, <<-1>>, <<0>>, <<1>>, <<DefaultBins>>},
     RMaxMult : {Absent, <<Rat(-1, 1)>>, <<Rat(0, 1)>>, <<DefaultRMaxMult>>},
     RMinMult : {Absent, <<Rat(-1, 1)>>, <<Rat(0, 1)>>, <<DefaultRMinMult>>}]

NoConfigFile == [Bins |-> Absent, RMaxMult |-> Absent, RMinMult |-> Absent]

\* parse.ReadConfig on a variable registered with a default.
ConfigVar(fileValue, default) ==
    IF fileValue = Absent THEN default ELSE fileValue[1]

\* ProfConfig.validate: whether it returns an error.
validate(config) ==
    \/ config.bins < 0
    \/ config.rMinMult.n <= 0
    \/ config.rMaxMult.n <= 0

\* ProfConfig.ReadConfig: the config it leaves and whether it returns an
\* error; parsed tells whether parse.ReadConfig could read the file.
ReadConfig(config, fname, file, parsed) ==
    IF fname = ""
    THEN [config |-> config, err |-> FALSE, validate |-> "notcalled"]
    ELSE LET read == ProfConfig(ConfigVar(file.Bins, DefaultBins),
                                ConfigVar(file.RMaxMult, DefaultRMaxMult),
                                ConfigVar(file.RMinMult, DefaultRMinMult))
         IN  IF ~parsed
             THEN [config |-> config, err |-> TRUE, validate |-> "notcalled"]
             ELSE [config |-> read, err |-> validate(read),
                   validate |-> IF validate(read) THEN "err" ELSE "ok"]

CfgInit ==
    /\ cPc = "readConfig"
    /\ cConfig = ZeroProfConfig
    /\ \/ cHasFile = FALSE /\ cFile = NoConfigFile
       \/ cHasFile = TRUE /\ cFile \in ConfigFiles
    /\ cValidate = "notcalled"
    /\ cRanWith = <<>>

\* shellfish.go lines 357-369: mode.ReadConfig(config) when a mode config
\* file was given, mode.ReadConfig("") otherwise.
MainReadConfig ==
    /\ cPc = "readConfig"
    /\ \E parsed \in BOOLEAN :
          LET res == ReadConfig(cConfig,
                                IF cHasFile THEN "prof.config" ELSE "",
                                cFile, parsed)
          IN  /\ cConfig' = res.config
              /\ cValidate' = res.validate
              /\ IF res.err
                 THEN /\ stdout' = Append(stdout, Terminating)
                      /\ exitStatus' = 1
                      /\ cPc' = "exited"
                 ELSE /\ UNCHANGED procVars
                      /\ cPc' = "init"
    /\ UNCHANGED <<cHasFile, cFile, cRanWith>>
    /\ UNCHANGED <<ipVars, treeVars, profVars, auxVars>>

\* shellfish.go lines 371-390: checkMemoDir, initCatalogs and initHalos; a
\* failure of any ends the process.
MainInitEnv ==
    /\ cPc = "init"
    /\ \E ok \in BOOLEAN :
          IF ok
          THEN /\ cPc' = "run"
               /\ UNCHANGED procVars
          ELSE /\ stdout' = Append(stdout, Terminating)
               /\ exitStatus' = 1
               /\ cPc' = "exited"
    /\ UNCHANGED <<cHasFile, cFile, cConfig, cValidate, cRanWith>>
    /\ UNCHANGED <<ipVars, treeVars, profVars, auxVars>>

\* shellfish.go line 392: mode.Run is called with the mode's config.
MainRun ==
    /\ cPc = "run"
    /\ cRanWith' = <<cConfig>>
    /\ cPc' = "running"
    /\ UNCHANGED <<cHasFile, cFile, cConfig, cValidate>>
    /\ UNCHANGED <<ipVars, treeVars, profVars, procVars, auxVars>>

InitConfig == CfgInit /\ ProcInit /\ IpIdle /\ TreeIdle /\ ProfIdle /\ AuxIdle

NextConfig ==
    \/ MainReadConfig
    \/ MainInitEnv
    \/ MainRun

SpecConfig == InitConfig /\ [][NextConfig]_vars

(***************************************************************************)
(* C9, C10.                                                                *)
(***************************************************************************)
Positive(config) ==
    config.bins > 0 /\ config.rMinMult.n > 0 /\ config.rMaxMult.n > 0

\* C9: validation rejects every configuration with bins <= 0,
\* rMinMult <= 0 or rMaxMult <= 0 and accepts every configuration with all
\* three positive; Run never executes with bins <= 0 or a non-positive
\* multiplier.
C9_NonPositiveRejected ==
    /\ cValidate = "ok" => Positive(cConfig)
    /\ cValidate = "err" => ~Positive(cConfig)
    /\ cRanWith # <<>> => Positive(cRanWith[1])

\* C10: without a mode config file, or with one that leaves the optional
\* fields out, Run gets bins = 150, rMinMult = 0.03 and rMaxMult = 3.0.
C10_DefaultsUsed ==
    cRanWith # <<>> =>
        /\ (~cHasFile \/ cFile.Bins = Absent) =>
              cRanWith[1].bins = DefaultBins
        /\ (~cHasFile \/ cFile.RMinMult = Absent) =>
              cRanWith[1].rMinMult = DefaultRMinMult
        /\ (~cHasFile \/ cFile.RMaxMult = Absent) =>
              cRanWith[1].rMaxMult = DefaultRMaxMult

(***************************************************************************)
(* Specification SpecProfile: processProfile applied to the bins of one    *)
(* halo, for every configuration that validate accepts.                    *)
(***************************************************************************)
CandidateConfigs ==
    {ProfConfig(bins, rMaxMult, rMinMult) :
        bins \in {-1, 0, 1, 2, 3},
        rMaxMult \in {Rat(1, 1), Rat(2, 1), Rat(3, 1)},
        rMinMult \in {Rat(0, 1), Rat(1, 2), Rat(1, 1), Rat(2, 1)}}

AcceptedConfigs == {config \in CandidateConfigs : ~validate(config)}

HaloRadii == {1, 2}

BinSums == {0, 1, 2}

PrInit ==
    /\ prPc = "call"
    /\ prConfig \in AcceptedConfigs
    /\ prR200m \in HaloRadii
    /\ prRs = <<>>
    /\ prRhos \in [1..prConfig.bins -> BinSums]

\* Lines 111-116 and 183-187 for one halo: rSets[i] is made with config.bins
\* elements, rhoSets[i] holds the raw sums of the config.bins bins, and
\* processProfile gets rMin = R200m*rMinMult and rMax = R200m*rMaxMult.
ProcessProfileCall ==
    /\ prPc = "call"
    /\ LET rs == Zeros(prConfig.bins)
           rMax == RatMul(prR200m, prConfig.rMaxMult)
           rMin == RatMul(prR200m, prConfig.rMinMult)
           res == processProfile(rs, prRhos, rMin, rMax)
       IN  /\ prRs' = res.rs
           /\ prRhos' = res.rhos
    /\ prPc' = "done"
    /\ UNCHANGED <<prConfig, prR200m>>
    /\ UNCHANGED restOfProfile

InitProfile ==
    /\ PrInit /\ IpIdle /\ TreeIdle /\ ProfIdle /\ ProcInit /\ CfgIdle
    /\ BkIdle /\ MmIdle /\ FgIdle /\ PiIdle

NextProfile == ProcessProfileCall

SpecProfile == InitProfile /\ [][NextProfile]_vars

(***************************************************************************)
(* C11.                                                                    *)
(***************************************************************************)
\* The order of two radii of one profile.  The radius of bin j is
\* exp(lrMin + dlr*(j + 0.5)) = rMin * (rMax/rMin)^((2j + 1)/(2n)), so with
\* rMax/rMin = p/q and p, q > 0 the radius of bin j is below the radius of
\* bin k exactly when p^(2j+1) * q^(2k+1) < p^(2k+1) * q^(2j+1).
RadiusLess(a, b) ==
    LET p == a.rMax.n * a.rMin.d
        q == a.rMax.d * a.rMin.n
    IN  Pow(p, 2 * a.j + 1) * Pow(q, 2 * b.j + 1)
            < Pow(p, 2 * b.j + 1) * Pow(q, 2 * a.j + 1)

\* C11: for every configuration that validate accepts and every halo, the
\* profile has exactly bins radii and exactly bins densities, and the radii
\* are strictly increasing in the bin index.
C11_ProfileShape ==
    prPc = "done" =>
        /\ Len(prRs) = prConfig.bins
        /\ Len(prRhos) = prConfig.bins
        /\ \A j \in 1..(Len(prRs) - 1) : RadiusLess(prRs[j], prRs[j + 1])

(***************************************************************************)
(* float64 addition.  A non-negative whole float is the set of the         *)
(* positions of the one bits of its value; float64 keeps MantissaBits      *)
(* significant bits and rounds a sum to nearest, ties to even.             *)
(***************************************************************************)
MantissaBits == 53

\* The exact sum of two values: a + b = (a xor b) + 2*(a and b).
RECURSIVE BitsAdd(_, _)
BitsAdd(a, b) ==
    IF b = {} THEN a
    ELSE BitsAdd((a \ b) \cup (b \ a), {k + 1 : k \in a \cap b})

MaxBit(a) == CHOOSE k \in a : \A k2 \in a : k2 <= k

\* The float64 nearest to an exact value.
RECURSIVE RoundFloat64(_)
RoundFloat64(a) ==
    IF a = {} THEN a
    ELSE LET cut == MaxBit(a) - (MantissaBits - 1)
             keep == {k \in a : k >= cut}
             low == {k \in a : k < cut}
             half == (cut - 1) \in low
             sticky == \E k \in low : k < cut - 1
         IN  IF low = {} THEN a
             ELSE IF half /\ (sticky \/ cut \in keep)
                  THEN RoundFloat64(BitsAdd(keep, {cut}))
                  ELSE keep

\* rhos[ir] += float64(ms[i]) of line 233.
Float64Add(rho, m) == RoundFloat64(BitsAdd(rho, m))

Float64Zeros(n) == [j \in 1..n |-> {}]

\* insertPoints from 0-based particle i on, with the bins and the masses as
\* float64 values: InsertFrom with the addition of line 233 rounded.
RECURSIVE InsertFrom64(_, _, _, _, _, _)
InsertFrom64(rhos, s, xs, ms, config, i) ==
    IF ~InRange(xs, i) THEN [rhos |-> rhos, panicked |-> FALSE]
    ELSE LET r2 == Dist2(At(xs, i), s.C)
             ir == BinIndex(r2, s, config)
         IN  IF Discarded(r2, s, config)
             THEN OnDiscarded(rhos, s, xs, ms, config, i,
                              InsertFrom64(rhos, s, xs, ms, config, i + 1))
             ELSE IF ~InRange(rhos, ir)
                  THEN [rhos |-> rhos, panicked |-> TRUE]
                  ELSE InsertFrom64(
                           [rhos EXCEPT ![ir + 1] = Float64Add(@, At(ms, i))],
                           s, xs, ms, config, i + 1)

\* Lines 166-177 for one block: insertPoints for each halo that intersects
\* it, from position k of intr on; idxs is the identity for one snapshot.
RECURSIVE AccumulateBlock64(_, _, _, _, _, _, _)
AccumulateBlock64(rhoSets, hBounds, intr, xs, ms, config, k) ==
    IF ~InRange(intr, k) THEN [rhoSets |-> rhoSets, panicked |-> FALSE]
    ELSE LET j == At(intr, k)
             res == InsertFrom64(At(rhoSets, j), At(hBounds, j), xs, ms,
                                 config, 0)
             upd == [rhoSets EXCEPT ![j + 1] = res.rhos]
         IN  IF res.panicked THEN [rhoSets |-> upd, panicked |-> TRUE]
             ELSE AccumulateBlock64(upd, hBounds, intr, xs, ms, config, k + 1)

\* Lines 160-180: one iteration of the loop over the blocks.
VisitBlock(rhoSets, hd, hBounds, config) ==
    LET intr == IntersectingFrom(hd, hBounds, 0)
    IN  IF Len(intr) = 0 THEN [rhoSets |-> rhoSets, panicked |-> FALSE]
        ELSE AccumulateBlock64(rhoSets, hBounds, intr, hd.xs, hd.ms, config, 0)

(***************************************************************************)
(* Specification SpecBlocks: the loop of lines 160-180 over the blocks of  *)
(* one snapshot, with the blocks listed in any order.                      *)
(***************************************************************************)
\* Particle masses: 1 and 2^53, both values of a float32.
UnitMass == {0}

LargeMass == {MantissaBits}

BlockMasses == {UnitMass, LargeMass}

\* Three blocks of one particle each; ms[k] is the mass of the block's
\* particle in block k.
BlocksWith(ms) ==
    << [lo |-> 0, hi |-> 2, xs |-> << <<1, 0, 0>> >>, ms |-> <<ms[1]>>],
       [lo |-> 2, hi |-> 4, xs |-> << <<2, 0, 0>> >>, ms |-> <<ms[2]>>],
       [lo |-> 4, hi |-> 6, xs |-> << <<4, 0, 0>> >>, ms |-> <<ms[3]>>] >>

BlockHalos ==
    {hs \in SeqsUpTo([C : {<<3, 0, 0>>, <<1, 0, 0>>}, R : {1, 2}], 2) :
        hs # <<>>}

BlockConfigs ==
    {ProfConfig(1, Rat(3, 1), Rat(1, 3)), ProfConfig(2, Rat(2, 1), Rat(1, 2))}

\* The blocks hds in the order perm.
Reordered(hds, perm) == [k \in 1..Len(hds) |-> hds[perm[k]]]

BkInit ==
    /\ bkPc = "blocks"
    /\ \E ms \in [1..3 -> BlockMasses], perm \in Permutations(1..3) :
          bkHds = Reordered(BlocksWith(ms), perm)
    /\ bkHBounds \in BlockHalos
    /\ bkConfig \in BlockConfigs
    /\ bkRhoSets = [h \in 1..Len(bkHBounds) |-> Float64Zeros(bkConfig.bins)]
    /\ bkBi = 0

\* Lines 160-180: the iteration for block bkBi.
BlockStep ==
    /\ bkPc = "blocks"
    /\ InRange(bkHds, bkBi)
    /\ LET res == VisitBlock(bkRhoSets, At(bkHds, bkBi), bkHBounds, bkConfig)
       IN  /\ bkRhoSets' = res.rhoSets
           /\ bkPc' = IF res.panicked THEN "panic" ELSE "blocks"
    /\ bkBi' = bkBi + 1
    /\ UNCHANGED <<bkHds, bkHBounds, bkConfig>>
    /\ UNCHANGED restOfBlocks

\* The loop ends after the last block.
BlocksDone ==
    /\ bkPc = "blocks"
    /\ ~InRange(bkHds, bkBi)
    /\ bkPc' = "done"
    /\ UNCHANGED <<bkHds, bkHBounds, bkConfig, bkRhoSets, bkBi>>
    /\ UNCHANGED restOfBlocks

InitBlocks ==
    /\ BkInit /\ IpIdle /\ TreeIdle /\ ProfIdle /\ ProcInit /\ CfgIdle
    /\ PrIdle /\ MmIdle /\ FgIdle /\ PiIdle

NextBlocks ==
    \/ BlockStep
    \/ BlocksDone

SpecBlocks == InitBlocks /\ [][NextBlocks]_vars

(***************************************************************************)
(* C12.                                                                    *)
(***************************************************************************)
\* The bins after the whole loop over hds, from 0-based block i on.
RECURSIVE SumsFrom(_, _, _, _, _)
SumsFrom(rhoSets, hds, hBounds, config, i) ==
    IF ~InRange(hds, i) THEN rhoSets
    ELSE SumsFrom(VisitBlock(rhoSets, At(hds, i), hBounds, config).rhoSets,
                  hds, hBounds, config, i + 1)

MaxRuns == 3

GlobalConfig(version, blockMins, threads) ==
    [Version |-> version, SnapshotFormat |-> "snap%d",
     SnapshotType |-> "gotetra",
     HaloDir |-> "halos", HaloType |-> "Text", TreeDir |-> "trees",
     MemoDir |-> "memo", BlockMins |-> blockMins, BlockMaxes |-> <<7>>,
     SnapMin |-> 0, SnapMax |-> 100, SnapshotFormatMeanings |-> <<"Snapshot">>,
     HaloPositionUnits |-> "Mpc/h", HaloMassUnits |-> "Msun/h",
     HaloValueColumns |-> <<0, 1>>, HaloValueNames |-> <<"ID", "M200m">>,
     Endianness |-> "LittleEndian", Threads |-> threads]

GlobalConfigFiles ==
    {[readable |-> TRUE, vars |-> GlobalConfig(version, blockMins, threads)] :
        version \in {"1.0.0", "1.0.1"},
        blockMins \in {<<0>>, <<0, 0>>, <<1>>},
        threads \in {1, 2}}
    \cup {[readable |-> FALSE, vars |-> GlobalConfig("1.0.0", <<0>>, 1)]}

\* GlobalConfig.ReadConfig: the config it reads and whether it fails.
GlobalReadConfig(file) == [config |-> file.vars, err |-> ~file.readable]

int64sEqual(xs, ys) ==
    IF Len(xs) # Len(ys) THEN FALSE
    ELSE \A i \in 1..Len(xs) : xs[i] = ys[i]

stringsEqual(xs, ys) ==
    IF Len(xs) # Len(ys) THEN FALSE
    ELSE \A i \in 1..Len(xs) : xs[i] = ys[i]

\* configEqual with Threads compared as well.
configEqualThreads(m, c) == c = m

configEqual(m, c) ==
    /\ c.Version = m.Version
    /\ c.SnapshotFormat = m.SnapshotFormat
    /\ c.SnapshotType = m.SnapshotType
    /\ c.HaloDir = m.HaloDir
    /\ c.HaloType = m.HaloType
    /\ c.TreeDir = m.TreeDir
    /\ c.MemoDir = m.MemoDir
    /\ int64sEqual(c.BlockMins, m.BlockMins)
    /\ int64sEqual(c.BlockMaxes, m.BlockMaxes)
    /\ c.SnapMin = m.SnapMin
    /\ c.SnapMax = m.SnapMax
    /\ stringsEqual(c.SnapshotFormatMeanings, m.SnapshotFormatMeanings)
    /\ c.HaloPositionUnits = m.HaloPositionUnits
    /\ c.HaloMassUnits = m.HaloMassUnits
    /\ int64sEqual(c.HaloValueColumns, m.HaloValueColumns)
    /\ stringsEqual(c.HaloValueNames, m.HaloValueNames)
    /\ c.Endianness = m.Endianness

\* copyFile: dst afterwards, and the error.
copyFile(dst, src) == [dst |-> <<src>>, err |-> FALSE]

\* checkMemoDir: memo.config afterwards, and whether an error is returned.
\* memo is <<>> when MemoDir has no memo.config, else <<the file>>.
checkMemoDir(memo, configFile) ==
    IF memo = <<>>
    THEN LET copied == copyFile(memo, configFile)
         IN  [memo |-> copied.dst, err |-> copied.err]
    ELSE LET config == GlobalReadConfig(configFile)
             memoConfig == GlobalReadConfig(memo[1])
         IN  IF config.err \/ memoConfig.err THEN [memo |-> memo, err |-> TRUE]
             ELSE [memo |-> memo,
                   err |-> ~configEqual(config.config, memoConfig.config)]

MmInit ==
    /\ mmPc = "shell" /\ mmMemo = <<>> /\ mmFile = <<>> /\ mmRuns = 0
    /\ mmRejected = 0 /\ mmModeRan = FALSE

\* The error exit of main: the line on stdout and os.Exit(1).
MemoRunFails ==
    /\ stdout' = Append(stdout, Terminating)
    /\ exitStatus' = 1
    /\ mmPc' = "shell"

\* A new process is started with some global config file.
MemoRunStart ==
    /\ mmPc = "shell"
    /\ mmRuns < MaxRuns
    /\ \E file \in GlobalConfigFiles : mmFile' = <<file>>
    /\ mmRuns' = mmRuns + 1
    /\ mmModeRan' = FALSE
    /\ stdout' = <<>>
    /\ exitStatus' = -1
    /\ mmPc' = "getGlobalConfig"
    /\ UNCHANGED <<mmMemo, mmRejected>>
    /\ UNCHANGED restOfMemo

\* shellfish.go lines 350-355: getGlobalConfig reads the global config file.
MemoGetGlobalConfig ==
    /\ mmPc = "getGlobalConfig"
    /\ IF GlobalReadConfig(mmFile[1]).err
       THEN MemoRunFails
       ELSE mmPc' = "readConfig" /\ UNCHANGED procVars
    /\ UNCHANGED <<mmMemo, mmFile, mmRuns, mmRejected, mmModeRan>>
    /\ UNCHANGED restOfMemo

\* Lines 357-369: mode.ReadConfig returns an error or not.
MemoReadConfig ==
    /\ mmPc = "readConfig"
    /\ \E ok \in BOOLEAN :
          IF ok THEN mmPc' = "checkMemoDir" /\ UNCHANGED procVars
          ELSE MemoRunFails
    /\ UNCHANGED <<mmMemo, mmFile, mmRuns, mmRejected, mmModeRan>>
    /\ UNCHANGED restOfMemo

\* Lines 371-375: checkMemoDir(gConfig.MemoDir, gConfigName).
MemoCheckMemoDir ==
    /\ mmPc = "checkMemoDir"
    /\ LET res == checkMemoDir(mmMemo, mmFile[1])
       IN  /\ mmMemo' = res.memo
           /\ IF res.err
              THEN MemoRunFails /\ mmRejected' = mmRejected + 1
              ELSE /\ mmPc' = "initEnv"
                   /\ UNCHANGED <<procVars, mmRejected>>
    /\ UNCHANGED <<mmFile, mmRuns, mmModeRan>>
    /\ UNCHANGED restOfMemo

\* Lines 377-401: initCatalogs and initHalos, then mode.Run and its output.
MemoModeRun ==
    /\ mmPc = "initEnv"
    /\ \E inited \in BOOLEAN, ok \in BOOLEAN :
          /\ mmModeRan' = inited
          /\ IF inited /\ ok
             THEN /\ exitStatus' = 0
                  /\ mmPc' = "shell"
                  /\ UNCHANGED stdout
             ELSE MemoRunFails
    /\ UNCHANGED <<mmMemo, mmFile, mmRuns, mmRejected>>
    /\ UNCHANGED restOfMemo

InitMemo ==
    /\ MmInit /\ IpIdle /\ TreeIdle /\ ProfIdle /\ ProcInit /\ CfgIdle
    /\ PrIdle /\ BkIdle /\ FgIdle /\ PiIdle

NextMemo ==
    \/ MemoRunStart
    \/ MemoGetGlobalConfig
    \/ MemoReadConfig
    \/ MemoCheckMemoDir
    \/ MemoModeRun

SpecMemo == InitMemo /\ [][NextMemo]_vars

(***************************************************************************)
(* C13.                                                                    *)
(***************************************************************************)
\* The fields of GlobalConfig that decide whether cached data can be used.
CacheFields ==
    {"Version", "SnapshotFormat", "SnapshotType", "HaloDir", "HaloType",
     "TreeDir", "MemoDir", "BlockMins", "BlockMaxes", "SnapMin", "SnapMax",
     "SnapshotFormatMeanings", "HaloPositionUnits", "HaloMassUnits",
     "HaloValueColumns", "HaloValueNames", "Endianness"}

SameCacheFields(file, stored) ==
    \A f \in CacheFields : file.vars[f] = stored.vars[f]

\* One step of a run, seen from the memo directory.
MemoStepOk ==
    /\ mmMemo # <<>> => mmMemo' = mmMemo
    /\ (mmPc = "checkMemoDir" /\ mmMemo = <<>>) =>
          mmMemo' = mmFile /\ mmPc' = "initEnv"
    /\ (mmPc = "checkMemoDir" /\ mmMemo # <<>>) =>
          /\ mmPc' = "initEnv" <=> SameCacheFields(mmFile[1], mmMemo[1])
          /\ mmPc' # "initEnv" =>
                /\ exitStatus' = 1
                /\ stdout' = <<Terminating>>
                /\ ~mmModeRan'
    /\ mmModeRan' => (mmPc = "initEnv" /\ SameCacheFields(mmFile[1], mmMemo[1]))

MaxFlags == 3
MaxConfigs == 2

ConfigSuffix == <<".", "c", "o", "n", "f", "i", "g">>

ProgramName == <<"s", "h", "e", "l", "l", "f", "i", "s", "h">>

ModeArgs == {<<"p", "r", "o", "f">>, <<"i", "d">>}

\* Flag tokens: a flag name, a value, and a value that is not a config file
\* name for want of the dot.
FlagArgs ==
    {<<"-", "-", "B", "i", "n", "s">>, <<"1", "0">>,
     <<"c", "o", "n", "f", "i", "g">>}

ConfigArgs == {<<"g">> \o ConfigSuffix, ConfigSuffix}

\* isConfig: len(s) >= 7 && s[len(s)-7:] == ".config"
isConfig(s) ==
    Len(s) >= 7 /\ SubSeq(s, Len(s) - 6, Len(s)) = ConfigSuffix

\* configNum: the loop from 0-based position i down.
RECURSIVE ConfigNumFrom(_, _)
ConfigNumFrom(args, i) ==
    IF i < 0 THEN 0
    ELSE IF isConfig(At(args, i)) THEN 1 + ConfigNumFrom(args, i - 1)
    ELSE 0

configNum(args) == ConfigNumFrom(args, Len(args) - 1)

\* The slice expression s[lo:hi]: a run-time panic unless
\* 0 <= lo <= hi <= len(s).
Slice(s, lo, hi) ==
    IF 0 <= lo /\ lo <= hi /\ hi <= Len(s)
    THEN [elems |-> SubSeq(s, lo + 1, hi), panicked |-> FALSE]
    ELSE [elems |-> <<>>, panicked |-> TRUE]

\* getFlags: args[1 : len(args)-1-configNum(args)]
getFlags(args) == Slice(args, 1, Len(args) - 1 - configNum(args))

FgInit ==
    /\ fgPc = "call"
    /\ fgGiven \in SeqsUpTo(FlagArgs, MaxFlags)
    /\ \E mode \in ModeArgs, cs \in SeqsUpTo(ConfigArgs, MaxConfigs) :
          fgArgs = <<ProgramName, mode>> \o fgGiven \o cs
    /\ fgFlags = <<>>
    /\ fgPanicked = FALSE

\* shellfish.go line 348: flags := getFlags(args)
GetFlagsCall ==
    /\ fgPc = "call"
    /\ LET res == getFlags(fgArgs)
       IN  /\ fgFlags' = res.elems
           /\ fgPanicked' = res.panicked
    /\ fgPc' = "done"
    /\ UNCHANGED <<fgArgs, fgGiven>>
    /\ UNCHANGED restOfFlags

InitFlags ==
    /\ FgInit /\ IpIdle /\ TreeIdle /\ ProfIdle /\ ProcInit /\ CfgIdle
    /\ PrIdle /\ BkIdle /\ MmIdle /\ PiIdle

NextFlags == GetFlagsCall

SpecFlags == InitFlags /\ [][NextFlags]_vars

(***************************************************************************)
(* C14.                                                                    *)
(***************************************************************************)
\* C14: for a command line [program, mode, f1..fk, c1..cm] whose trailing
\* config file names are c1..cm, getFlags returns exactly [f1..fk] in
\* order, with valid slice bounds: no flag is dropped and neither the mode
\* name nor a config file name is included.
C14_FlagsReturned ==
    fgPc = "done" => (~fgPanicked /\ fgFlags = fgGiven)

(***************************************************************************)
(* Specification SpecPipe: Shellfish processes joined by pipes, the        *)
(* standard output of one being the standard input of the next.  A stream  *)
(* and a line are sequences of characters.                                 *)
(***************************************************************************)
MaxStages == 3

ShellfishPrefix == <<"S", "h", "e", "l", "l", "f", "i", "s", "h">>

TerminatingLine ==
    ShellfishPrefix
    \o <<" ", "t", "e", "r", "m", "i", "n", "a", "t", "i", "n", "g", ".">>

\* The modes that read a catalog from stdin (shellfish.go line 330), and all
\* modes.
StdinModes == {"tree", "coord", "prof", "shell", "stats"}

PipeModes == StdinModes \cup {"id"}

\* fmt.Println of one line.
Println(line) == line \o <<"\n">>

RECURSIVE PrintAll(_)
PrintAll(lines) ==
    IF lines = <<>> THEN <<>> ELSE Println(Head(lines)) \o PrintAll(Tail(lines))

\* strings.Split(text, "\n")
RECURSIVE Split(_)
Split(text) ==
    IF text = <<>> THEN << <<>> >>
    ELSE LET rest == Split(Tail(text))
         IN  IF Head(text) = "\n" THEN << <<>> >> \o rest
             ELSE << <<Head(text)>> \o Head(rest) >> \o Tail(rest)

\* stdinLines without its error: the lines of the text, less a last empty
\* one.
stdinLines(bs) ==
    LET lines == Split(bs)
    IN  IF lines[Len(lines)] = <<>> THEN SubSeq(lines, 1, Len(lines) - 1)
        ELSE lines

\* len(lines[0]) >= 9 && lines[0][:9] == "Shellfish"
HasShellfishPrefix(line) ==
    Len(line) >= 9 /\ SubSeq(line, 1, 9) = ShellfishPrefix

\* A catalog as a mode returns it: a comment line and a row.
CatalogLines == << <<"#", " ", "I", "D">>, <<"7">> >>

\* What the first process of the pipe may find on its stdin.
FirstStdins ==
    {<<>>, PrintAll(CatalogLines), Println(<<"7">>), Println(TerminatingLine),
     ShellfishPrefix}

\* How mode.Run ends.  ProfConfig.Run panics at coords[i][4]
\* (part_000 lines 184-185) when it gets to its last loop.
RunOutcomes(mode) ==
    {"lines", "err"} \cup (IF mode = "prof" THEN {"panic"} ELSE {})

PiInit ==
    /\ piPc = "stdin"
    /\ piStage = 1
    /\ piMode \in PipeModes
    /\ piStdin \in FirstStdins
    /\ piLines = <<>> /\ piStdout = <<>> /\ piExit = -1
    /\ piReadConfigs = FALSE /\ piRanMode = FALSE /\ piFailedAt = ""
    /\ piLog = <<>>

\* The process ends.
StageExits(out, status, failedAt) ==
    /\ piStdout' = piStdout \o out
    /\ piExit' = status
    /\ piFailedAt' = failedAt
    /\ piPc' = "exited"

\* fmt.Println("Shellfish terminating."); os.Exit(1)
StageFails(failedAt) == StageExits(Println(TerminatingLine), 1, failedAt)

StageGoes(pc) == piPc' = pc /\ UNCHANGED <<piStdout, piExit, piFailedAt>>

\* shellfish.go lines 328-346: a mode that takes a catalog reads all of
\* stdin; no lines end the process quietly, and a single line that starts
\* with "Shellfish" is printed again with os.Exit(1).
PipeStdin ==
    /\ piPc = "stdin"
    /\ IF piMode \notin StdinModes
       THEN StageGoes("configs") /\ piLines' = piLines
       ELSE \E ok \in BOOLEAN :
              IF ~ok
              THEN StageFails("stdin") /\ piLines' = piLines
              ELSE LET lines == stdinLines(piStdin)
                   IN  /\ piLines' = lines
                       /\ IF Len(lines) = 0
                          THEN StageExits(<<>>, 0, "")
                          ELSE IF Len(lines) = 1
                                  /\ HasShellfishPrefix(lines[1])
                          THEN StageExits(Println(lines[1]), 1, "")
                          ELSE StageGoes("configs")
    /\ UNCHANGED <<piStage, piMode, piStdin, piReadConfigs, piRanMode, piLog>>
    /\ UNCHANGED restOfPipe

\* Lines 348-369: getFlags, getConfig, getGlobalConfig and mode.ReadConfig.
PipeConfigs ==
    /\ piPc = "configs"
    /\ piReadConfigs' = TRUE
    /\ \E ok \in BOOLEAN :
          IF ok THEN StageGoes("memo") ELSE StageFails("config")
    /\ UNCHANGED <<piStage, piMode, piStdin, piLines, piRanMode, piLog>>
    /\ UNCHANGED restOfPipe

\* Lines 371-375: checkMemoDir.
PipeMemo ==
    /\ piPc = "memo"
    /\ \E ok \in BOOLEAN :
          IF ok THEN StageGoes("init") ELSE StageFails("memo")
    /\ UNCHANGED <<piStage, piMode, piStdin, piLines, piReadConfigs,
                   piRanMode, piLog>>
    /\ UNCHANGED restOfPipe

\* Lines 377-390: initCatalogs and initHalos.
PipeInitEnv ==
    /\ piPc = "init"
    /\ \E ok \in BOOLEAN :
          IF ok THEN StageGoes("run") ELSE StageFails("init")
    /\ UNCHANGED <<piStage, piMode, piStdin, piLines, piReadConfigs,
                   piRanMode, piLog>>
    /\ UNCHANGED restOfPipe

\* Lines 392-401: mode.Run and the printing of its lines.  A panic ends the
\* process with status 2 and nothing on standard output.
PipeRun ==
    /\ piPc = "run"
    /\ piRanMode' = TRUE
    /\ \E outcome \in RunOutcomes(piMode) :
          IF outcome = "lines" THEN StageExits(PrintAll(CatalogLines), 0, "")
          ELSE IF outcome = "err" THEN StageFails("run")
          ELSE StageExits(<<>>, 2, "run")
    /\ UNCHANGED <<piStage, piMode, piStdin, piLines, piReadConfigs, piLog>>
    /\ UNCHANGED restOfPipe

\* The stage as it ended.
StageRecord ==
    [mode |-> piMode, stdin |-> piStdin, stdout |-> piStdout,
     exit |-> piExit, failedAt |-> piFailedAt,
     readConfigs |-> piReadConfigs, ranMode |-> piRanMode]

\* The next process of the pipe reads what the one before it wrote.
PipeNextStage ==
    /\ piPc = "exited"
    /\ piStage < MaxStages
    /\ piLog' = Append(piLog, StageRecord)
    /\ piStage' = piStage + 1
    /\ piMode' \in StdinModes
    /\ piStdin' = piStdout
    /\ piLines' = <<>> /\ piStdout' = <<>> /\ piExit' = -1
    /\ piReadConfigs' = FALSE /\ piRanMode' = FALSE /\ piFailedAt' = ""
    /\ piPc' = "stdin"
    /\ UNCHANGED restOfPipe

InitPipe ==
    /\ PiInit /\ IpIdle /\ TreeIdle /\ ProfIdle /\ ProcInit /\ CfgIdle
    /\ PrIdle /\ BkIdle /\ MmIdle /\ FgIdle

NextPipe ==
    \/ PipeStdin
    \/ PipeConfigs
    \/ PipeMemo
    \/ PipeInitEnv
    \/ PipeRun
    \/ PipeNextStage

SpecPipe == InitPipe /\ [][NextPipe]_vars

(***************************************************************************)
(* C15.                                                                    *)
(***************************************************************************)
\* The stages that have ended, in the order of the pipe.
EndedStages == piLog \o (IF piPc = "exited" THEN <<StageRecord>> ELSE <<>>)

\* The stage printed no line but lines starting with "Shellfish".
NoCatalogRows(stage) ==
    \A k \in 1..Len(stdinLines(stage.stdout)) :
        HasShellfishPrefix(stdinLines(stage.stdout)[k])

\* C15: a stage that fails writes only the line "Shellfish terminating." and
\* exits with status 1; a stage that reads stdin and finds a single line
\* starting with "Shellfish" prints that line again and exits with status 1
\* without reading configs or running its mode; once a stage has failed
\* every later stage exits non-zero without catalog rows; a stage with empty
\* stdin prints nothing and ends without error.
C15_FailurePropagates ==
    /\ \A k \in 1..Len(EndedStages) :
          LET stage == EndedStages[k]
              lines == stdinLines(stage.stdin)
          IN  /\ stage.failedAt # "" =>
                    /\ stage.stdout = Println(TerminatingLine)
                    /\ stage.exit = 1
              /\ (/\ stage.mode \in StdinModes
                  /\ stage.failedAt # "stdin"
                  /\ Len(lines) = 1
                  /\ HasShellfishPrefix(lines[1])) =>
                    /\ stage.stdout = Println(lines[1])
                    /\ stage.exit = 1
                    /\ ~stage.readConfigs
                    /\ ~stage.ranMode
              /\ (/\ stage.mode \in StdinModes
                  /\ stage.failedAt # "stdin"
                  /\ stage.stdin = <<>>) =>
                    /\ stage.stdout = <<>>
                    /\ stage.exit = 0
    /\ \A i \in 1..Len(EndedStages), j \in 1..Len(EndedStages) :
          (i < j /\ EndedStages[i].exit # 0) =>
              /\ EndedStages[j].exit # 0
              /\ NoCatalogRows(EndedStages[j])

====
